---- MODULE Spec2Model ----
(***************************************************************************)
(* Model of the agent coordination layer of thinking-space (src-tauri):    *)
(*   - Terminal::append_output, the bounded output buffer (terminal.rs)    *)
(*   - AcpManager start/stop and the send-message task (acp_v2/manager.rs) *)
(*   - ThinkingSpaceClient::request_permission and session_notification    *)
(*     (acp_v2/client.rs)                                                  *)
(*   - TerminalManager, the terminal registry (terminal.rs)                *)
(* The specifications share the variables:                                 *)
(*   SpecTerminal  the output buffer under arbitrary appends               *)
(*   Spec          the supervisor, the session registry, send-message      *)
(*   SpecLive      Spec with the spawned threads running fairly            *)
(*   SpecPerm      the supervisor and the permission broker                *)
(*   SpecReply     starting the supervisor and answering permission        *)
(*                 requests, with no stop()                                *)
(*   SpecNotify    Spec with the session updates of the adapters           *)
(*   SpecOrder     SpecNotify with no stop() and no adapter ending         *)
(*   SpecRegistry  the terminal registry under arbitrary calls             *)
(*   SpecRestart   the supervisor, started and stopped, with the terminals *)
(*                 its adapters create, read and release                   *)
(***************************************************************************)
EXTENDS Integers, Sequences, FiniteSets

\* Option::None of a slot that holds an id (ids start at 1)
None == 0

(***************************************************************************)
(* Text.  A Rust String is UTF-8: a byte is modelled as the character it   *)
(* belongs to and its index inside that character's encoding; index 0 is   *)
(* the lead byte, the others are continuation bytes.                       *)
(***************************************************************************)
Chars == {"a", "e2", "e3"}

\* "nl" is the line feed the capture routines put after every line
Width(c) == CASE c = "a" -> 1 [] c = "e2" -> 2 [] c = "e3" -> 3 [] c = "nl" -> 1

RECURSIVE EncodeFrom(_, _)
EncodeFrom(c, i) ==
    IF i >= Width(c) THEN <<>>
    ELSE <<[ch |-> c, ix |-> i]>> \o EncodeFrom(c, i + 1)

EncodeChar(c) == EncodeFrom(c, 0)

RECURSIVE Encode(_)
Encode(s) == IF s = <<>> THEN <<>> ELSE EncodeChar(Head(s)) \o Encode(Tail(s))

\* str::is_char_boundary: 0 and len are boundaries, an index past len is not,
\* and an index inside is a boundary iff the byte there is not a continuation byte
IsCharBoundary(buf, i) ==
    \/ i = 0
    \/ i = Len(buf)
    \/ (i < Len(buf) /\ buf[i + 1].ix = 0)

\* the bytes of buf from byte offset i on (buf[i..])
SliceFrom(buf, i) == SubSeq(buf, i + 1, Len(buf))

\* a byte string is valid text when it is a concatenation of whole characters
RECURSIVE ValidText(_)
ValidText(buf) ==
    IF buf = <<>> THEN TRUE
    ELSE LET w == Width(buf[1].ch) IN
         /\ buf[1].ix = 0
         /\ Len(buf) >= w
         /\ SubSeq(buf, 1, w) = EncodeChar(buf[1].ch)
         /\ ValidText(SliceFrom(buf, w))

\* bounds of the terminal specification
MaxAppends == 2
MaxAppendChars == 2
MaxCeiling == 4

RECURSIVE StringsUpTo(_)
StringsUpTo(n) ==
    IF n = 0 THEN {<<>>}
    ELSE LET shorter == StringsUpTo(n - 1) IN
         shorter \cup {<<c>> \o s : c \in Chars, s \in {x \in shorter : Len(x) = n - 1}}

AppendInputs == StringsUpTo(MaxAppendChars)

VARIABLES
    output,            \* Terminal.output, as bytes
    max_output_bytes,  \* Terminal.max_output_bytes
    appended,          \* history: everything passed to append_output, in order
    nAppends,          \* history: number of append_output calls
    nTruncations       \* history: number of append_output calls that truncated

\* the terminal registry (TerminalManager) and the calls made on it
VARIABLES
    terminals,         \* TerminalManager.terminals: terminal id -> Terminal
    child,             \* per terminal id: the state of its operating-system process
    killAwait,         \* the terminal whose kill() is suspended in process.kill().await
    parked,            \* the routine that parked the runtime thread in lock(), or ""
    waitPc,            \* per terminal id: position of the wait_for_exit call on it
    waitMissed,        \* history: ids a waiting call polled and found missing
    watcher,           \* per terminal id: position of its exit-watcher routine
    ret,               \* the last value a registry call returned
    nCalls,            \* history: number of registry calls made
    nLines,            \* history: number of lines the processes wrote
    pipe,              \* per terminal id and stream: lines written and not yet read
    termEvents,        \* the terminal events the client emitted
    termThread         \* per terminal id: the start thread whose runtime runs its
                       \* routines, None when the registry is driven directly

regVars == <<terminals, child, killAwait, parked, waitPc, waitMissed, watcher, ret,
             nCalls, nLines, pipe, termEvents, termThread>>

bufVars == <<output, max_output_bytes, appended, nAppends, nTruncations>>

termVars == <<bufVars, regVars>>

\* the while loop of append_output: the first index >= i that is a character
\* boundary of buf, or Len(buf)
ScanBoundaryNoScan(buf, i) == i

RECURSIVE ScanBoundary(_, _)
ScanBoundary(buf, i) ==
    IF i < Len(buf) /\ ~IsCharBoundary(buf, i)
    THEN ScanBoundary(buf, i + 1)
    ELSE i

\* Terminal::append_output as a function of the old buffer
TruncatedKeepFront(buf, max) ==
    IF Len(buf) > max THEN SubSeq(buf, 1, max) ELSE buf

Truncated(buf, max) ==
    IF Len(buf) > max
    THEN LET excess == Len(buf) - max
             truncate_at == ScanBoundary(buf, excess)
         IN SliceFrom(buf, truncate_at)
    ELSE buf

AppendOutput(new_output) ==
    /\ nAppends < MaxAppends
    /\ output' = Truncated(output \o Encode(new_output), max_output_bytes)
    /\ appended' = appended \o Encode(new_output)
    /\ nAppends' = nAppends + 1
    /\ nTruncations' = IF Len(output \o Encode(new_output)) > max_output_bytes
                       THEN nTruncations + 1 ELSE nTruncations
    /\ UNCHANGED <<max_output_bytes, regVars>>

\* bounds of the terminal registry: terminal ids; inputs taken all together
\* (registry calls, lines written, processes ending); lines written; and the
\* inputs taken all together when the supervisor is started and stopped
MaxTerminals == 2
MaxCalls == 4
MaxLines == 2
MaxRestartInputs == 4

TermIds == 1..MaxTerminals

\* the two piped streams of a terminal's process
Streams == {"stdout", "stderr"}

\* Option<T>: None and Some(x)
NoneOpt == <<>>
Some(x) == <<x>>

NoRet == [op |-> "", id |-> None, res |-> "", output |-> <<>>, exit_status |-> NoneOpt,
          wire |-> NoneOpt, n |-> 0]

\* TerminalManager::new
RegInit ==
    /\ terminals = <<>>
    /\ child = [t \in TermIds |-> "unspawned"]
    /\ killAwait = None
    /\ parked = ""
    /\ waitPc = [t \in TermIds |-> "idle"]
    /\ waitMissed = {}
    /\ watcher = [t \in TermIds |-> "none"]
    /\ ret = NoRet
    /\ nCalls = 0
    /\ nLines = 0
    /\ pipe = [t \in TermIds |-> [st \in Streams |-> 0]]
    /\ termEvents = {}
    /\ termThread = [t \in TermIds |-> None]

TermIdle ==
    /\ RegInit
    /\ output = <<>>
    /\ max_output_bytes = 0
    /\ appended = <<>>
    /\ nAppends = 0
    /\ nTruncations = 0

\* Terminal::new with any ceiling
InitTerminal ==
    /\ RegInit
    /\ output = <<>>
    /\ max_output_bytes \in 0..MaxCeiling
    /\ appended = <<>>
    /\ nAppends = 0
    /\ nTruncations = 0


(***************************************************************************)
(* The supervisor (AcpManager), its start threads and send-message tasks.  *)
(* Every start() call that passes the already-running check spawns one     *)
(* thread (id t); the adapter it spawns, its connection and its shutdown   *)
(* channel carry the same id.  Every send-message call that finds a        *)
(* connection spawns one task thread (id i); its request id is i.          *)
(***************************************************************************)
\* bound: how many inputs one behaviour takes, all together: start() and
\* send-message calls that spawn a thread, calls that return without doing
\* anything, permission requests and notifications of the adapter, adapters
\* ending on their own, and permission decisions (stop() calls that stop
\* something are not counted)
MaxInputs == 3
\* bound: the total of inputs up to which permission requests and notifications
\* of the adapter and permission decisions of the frontend are still taken
MaxPermInputs == 4

StartIds == 1..MaxInputs
SendIds == 1..MaxInputs
Keys == {"k1", "k2"}
\* conversation_history: None, Some(empty), Some(non-empty)
Histories == {"absent", "empty", "some"}

\* a session id as the adapter returns it: the adapter instance and the
\* request that made it are what make it fresh
NoSession == <<0, 0>>

VARIABLES
    process,            \* AcpManager.process: None or the child handle of thread t
    connection,         \* AcpManager.connection: None or the connection of thread t
    shutdown_tx,        \* AcpManager.shutdown_tx: None or the sender of thread t's channel
    sessions,           \* AcpManager.sessions: working directory -> session id
    current_request_id, \* ThinkingSpaceClient.current_request_id
    startPc,            \* position of start thread t; at the end "exit" (the async
                        \* block returned Ok) or "failed" (it returned Err)
    startRet,           \* what the start() call that spawned thread t returned
    chan,               \* the oneshot shutdown channel of thread t: "none", "open",
                        \* "sent", "closed" (sender dropped), "rx_dropped"
    adapter,            \* the OS process spawned by thread t: "none", "alive",
                        \* "dead" (killed by stop()), "exited" (ended on its own)
    noops,              \* history: how many calls of each command returned without
                        \* doing anything (start: already running, stop: nothing to
                        \* stop, send: "Not connected"), counted while the bound allows
    events,             \* events emitted to the frontend
    sendPc,             \* position of send-message task i
    sendKey,            \* its working_directory
    sendConn,           \* the connection it cloned
    sendSession,        \* its session_id (cached or created)
    sendPrompt,         \* the prompt text it sent, as a sequence of parts
    adapterSessions,    \* sessions the adapters created: <<session id, cwd>>
    promptEvents        \* the events task i emitted for the result of its prompt, in order

supVars == <<process, connection, shutdown_tx, sessions, current_request_id,
             startPc, startRet, chan, adapter, noops, events>>
sendVars == <<sendPc, sendKey, sendConn, sendSession, sendPrompt,
              adapterSessions, promptEvents>>

(***************************************************************************)
(* The permission broker (ThinkingSpaceClient::request_permission).  A     *)
(* request r is handled by a local task of the start thread whose          *)
(* connection received it; its generated request id (a fresh uuid) is r.   *)
(***************************************************************************)
VARIABLES
    permPc,             \* position of the request_permission call r
    permThread,         \* the start thread whose LocalSet runs it
    permGot,            \* the decision it received from the channel
    permResp,           \* the protocol response it returned
    permission_rx,      \* the decisions queued in the shared channel
    rxLock,             \* holder of the permission_rx mutex guard, or None
    nDecisions,         \* history: number of decisions submitted
    nNotifications,     \* history: number of session updates the adapters sent
    updates,            \* per connection: the updates sent whose handler has not run
    observed,           \* the session-update events, in the order they were emitted
    stoppedWaiting      \* history: the requests that were waiting when stop() ran

permVars == <<permPc, permThread, permGot, permResp, permission_rx, rxLock, nDecisions,
              nNotifications, updates, observed, stoppedWaiting>>

vars == <<termVars, supVars, sendVars, permVars>>

\* an emitted event: its name, the id its payload carries (a session id, or
\* a request id paired with 0), one more payload field, and the emitting call
Event(type, id, info, by) == [type |-> type, id |-> id, info |-> info, by |-> by]

\* a thread parked in parking_lot's Mutex::lock() runs none of its tasks
Blocked(t) == \E r \in DOMAIN permPc : permThread[r] = t /\ permPc[r] = "lock"

\* the thread's LocalSet is being driven, so the connection's IO task runs
IoAlive(t) == startPc[t] \in {"initialize", "wait_shutdown"} /\ ~Blocked(t)

\* the adapter of connection t can send a request or a notification that is
\* read and dispatched: it is alive, the handshake is over, the IO task runs
AdapterTalks(t) ==
    /\ adapter[t] = "alive"
    /\ startPc[t] = "wait_shutdown"
    /\ IoAlive(t)

\* dropping the LocalSet of thread t drops its suspended handler futures,
\* and with them the mutex guard one of them may hold
DropPermPc(t) ==
    [r \in DOMAIN permPc |->
        IF permThread[r] = t /\ permPc[r] = "recv" THEN "dropped" ELSE permPc[r]]
DropRxLock(t) ==
    IF rxLock # None /\ permThread[rxLock] = t THEN None ELSE rxLock

DropRuntimeKillsProcesses(t) ==
    /\ watcher' = [x \in DOMAIN watcher |->
                     IF termThread[x] = t /\ watcher[x] # "none" THEN "dropped"
                     ELSE watcher[x]]
    /\ child' = [x \in DOMAIN child |->
                   IF termThread[x] = t /\ child[x] = "running" THEN "killed"
                   ELSE child[x]]
    /\ UNCHANGED <<terminals, killAwait, parked, waitPc, waitMissed, ret, nCalls,
                   nLines, pipe, termEvents, termThread>>

\* dropping the runtime of thread t cancels the tasks spawned on it: the
\* capture routines and the exit watchers of the terminals created on t.  The
\* registry, and with it the Child handles, belongs to the client, which the
\* manager keeps: no terminal is removed and no process is killed
DropRuntime(t) ==
    /\ watcher' = [x \in DOMAIN watcher |->
                     IF termThread[x] = t /\ watcher[x] # "none" THEN "dropped"
                     ELSE watcher[x]]
    /\ UNCHANGED <<terminals, child, killAwait, parked, waitPc, waitMissed, ret, nCalls,
                   nLines, pipe, termEvents, termThread>>

DropLocalSet(t) ==
    /\ permPc' = DropPermPc(t)
    /\ rxLock' = DropRxLock(t)
    /\ UNCHANGED <<permThread, permGot, permResp, permission_rx, nDecisions, nNotifications, updates, observed,
                   stoppedWaiting>>

\* the inputs taken so far, against the bound
Inputs ==
    Cardinality({t \in DOMAIN startPc : startPc[t] # "unused"})
    + Cardinality({i \in DOMAIN sendPc : sendPc[i] # "unused"})
    + Cardinality({r \in DOMAIN permPc : permPc[r] # "unused"})
    + noops.start + noops.stop + noops.send
    + nDecisions + nNotifications
    + Cardinality({t \in DOMAIN adapter : adapter[t] = "exited"})

\* record one more call of command op that returned without doing anything
Noop(op) ==
    IF Inputs < MaxInputs THEN [noops EXCEPT ![op] = @ + 1] ELSE noops

NextStartId == CHOOSE t \in StartIds :
                  /\ startPc[t] = "unused"
                  /\ \A u \in StartIds : u < t => startPc[u] # "unused"

\* AcpManager::start past the already-running check: create the shutdown
\* channel, store its sender (dropping the one stored before), spawn the
\* thread and return Ok
StartThread ==
    /\ Inputs < MaxInputs
    /\ LET t == NextStartId IN
       /\ shutdown_tx' = t
       /\ chan' = [u \in StartIds |->
                     IF u = t THEN "open"
                     ELSE IF u = shutdown_tx /\ chan[u] = "open" THEN "closed"
                     ELSE chan[u]]
       /\ startPc' = [startPc EXCEPT ![t] = "spawn"]
       /\ startRet' = [startRet EXCEPT ![t] = "Ok"]
    /\ UNCHANGED <<process, connection, sessions, current_request_id,
                   adapter, noops, events>>
    /\ UNCHANGED <<termVars, sendVars, permVars>>

StartCallIgnoresRunning == StartThread

\* AcpManager::start, the part that runs on the caller's thread
StartCall ==
    IF process # None
    THEN /\ noops' = Noop("start")
         /\ UNCHANGED <<process, connection, shutdown_tx, sessions,
                        current_request_id, startPc, startRet,
                        chan, adapter, events>>
         /\ UNCHANGED <<termVars, sendVars, permVars>>
    ELSE StartThread

ThreadSpawnStoresConnection(t) ==
    /\ startPc[t] = "spawn"
    /\ adapter' = [adapter EXCEPT ![t] = "alive"]
    /\ connection' = t
    /\ startPc' = [startPc EXCEPT ![t] = "initialize"]
    /\ UNCHANGED <<process, shutdown_tx, sessions, current_request_id,
                   startRet, chan, noops, events>>
    /\ UNCHANGED <<termVars, sendVars, permVars>>

\* cmd.spawn(): the adapter process starts, or spawning fails and the async
\* block returns Err, which ends the thread
ThreadSpawn(t) ==
    /\ startPc[t] = "spawn"
    /\ \/ /\ adapter' = [adapter EXCEPT ![t] = "alive"]
          /\ startPc' = [startPc EXCEPT ![t] = "initialize"]
          /\ UNCHANGED chan
       \/ /\ startPc' = [startPc EXCEPT ![t] = "failed"]
          /\ chan' = [chan EXCEPT ![t] = "rx_dropped"]
          /\ UNCHANGED adapter
    /\ UNCHANGED <<process, connection, shutdown_tx, sessions,
                   current_request_id, startRet, noops, events>>
    /\ UNCHANGED <<termVars, sendVars, permVars>>

\* conn.initialize(..).await returns Ok: the thread goes on to store
ThreadInitializeOk(t) ==
    /\ startPc[t] = "initialize"
    /\ ~Blocked(t)
    /\ adapter[t] = "alive"
    /\ startPc' = [startPc EXCEPT ![t] = "store_connection"]
    /\ UNCHANGED <<process, connection, shutdown_tx, sessions,
                   current_request_id, startRet, chan, adapter,
                   noops, events>>
    /\ UNCHANGED <<termVars, sendVars, permVars>>

\* conn.initialize(..).await returns Err: the async block returns Err, the
\* child handle and the LocalSet are dropped (the child is not killed)
ThreadInitializeErr(t) ==
    /\ startPc[t] = "initialize"
    /\ ~Blocked(t)
    /\ startPc' = [startPc EXCEPT ![t] = "failed"]
    /\ chan' = [chan EXCEPT ![t] = "rx_dropped"]
    /\ DropLocalSet(t)
    /\ DropRuntime(t)
    /\ UNCHANGED <<process, connection, shutdown_tx, sessions,
                   current_request_id, startRet, adapter, noops, events>>
    /\ UNCHANGED <<bufVars, sendVars>>

\* *connection_arc.lock() = Some(Arc::new(conn))
ThreadStoreConnection(t) ==
    /\ startPc[t] = "store_connection"
    /\ connection' = t
    /\ startPc' = [startPc EXCEPT ![t] = "store_process"]
    /\ UNCHANGED <<process, shutdown_tx, sessions, current_request_id,
                   startRet, chan, adapter, noops, events>>
    /\ UNCHANGED <<termVars, sendVars, permVars>>

\* *process_arc.lock() = Some(child), then emit agent-ready and start
\* waiting for the shutdown signal
ThreadStoreProcess(t) ==
    /\ startPc[t] = "store_process"
    /\ process' = t
    /\ events' = events \cup {Event("agent-ready", <<0, 0>>, "", t)}
    /\ startPc' = [startPc EXCEPT ![t] = "wait_shutdown"]
    /\ UNCHANGED <<connection, shutdown_tx, sessions, current_request_id,
                   startRet, chan, adapter, noops>>
    /\ UNCHANGED <<termVars, sendVars, permVars>>

\* shutdown_rx.await returns (a value was sent, or the sender was dropped):
\* the async block returns Ok and the thread ends, dropping the LocalSet
ThreadShutdown(t) ==
    /\ startPc[t] = "wait_shutdown"
    /\ ~Blocked(t)
    /\ chan[t] \in {"sent", "closed"}
    /\ startPc' = [startPc EXCEPT ![t] = "exit"]
    /\ chan' = [chan EXCEPT ![t] = "rx_dropped"]
    /\ DropLocalSet(t)
    /\ DropRuntime(t)
    /\ UNCHANGED <<process, connection, shutdown_tx, sessions,
                   current_request_id, startRet, adapter, noops, events>>
    /\ UNCHANGED <<bufVars, sendVars>>

\* the adapter process ends on its own (it crashes or quits); nothing in the
\* supervisor waits for the child or is told about it
AdapterExits(t) ==
    /\ Inputs < MaxInputs
    /\ adapter[t] = "alive"
    /\ adapter' = [adapter EXCEPT ![t] = "exited"]
    /\ UNCHANGED <<process, connection, shutdown_tx, sessions,
                   current_request_id, startPc, startRet, chan, noops, events>>
    /\ UNCHANGED <<termVars, sendVars, permVars>>

\* the request_permission calls that have not returned
WaitingPerms == {r \in DOMAIN permPc : permPc[r] \in {"lock", "recv"}}

\* shutdown_tx.lock().take() and tx.send(()): the value reaches the channel
\* unless the receiving thread is gone (send then returns Err, ignored)
SignalShutdown ==
    IF shutdown_tx # None /\ chan[shutdown_tx] = "open"
    THEN [chan EXCEPT ![shutdown_tx] = "sent"]
    ELSE chan

SupStopped ==
    /\ process = None
    /\ connection = None
    /\ shutdown_tx = None
    /\ \A k \in Keys : sessions[k] = NoSession

StopKeepsSessions ==
    /\ chan' = SignalShutdown
    /\ shutdown_tx' = None
    /\ connection' = None
    /\ adapter' = IF process # None /\ adapter[process] = "alive"
                  THEN [adapter EXCEPT ![process] = "dead"]
                  ELSE adapter
    /\ process' = None
    /\ noops' = IF SupStopped THEN Noop("stop") ELSE noops
    /\ stoppedWaiting' = stoppedWaiting \cup WaitingPerms
    /\ UNCHANGED <<sessions, current_request_id, startPc, startRet, events>>
    /\ UNCHANGED <<permPc, permThread, permGot, permResp, permission_rx, rxLock, nDecisions,
                   nNotifications, updates, observed>>
    /\ UNCHANGED <<termVars, sendVars>>

\* AcpManager::stop: signal the start thread, discard the connection, kill and
\* reap the stored child, clear the sessions
Stop ==
    /\ chan' = SignalShutdown
    /\ shutdown_tx' = None
    /\ connection' = None
    /\ adapter' = IF process # None /\ adapter[process] = "alive"
                  THEN [adapter EXCEPT ![process] = "dead"]
                  ELSE adapter
    /\ process' = None
    /\ sessions' = [k \in Keys |-> NoSession]
    /\ noops' = IF SupStopped THEN Noop("stop") ELSE noops
    /\ stoppedWaiting' = stoppedWaiting \cup WaitingPerms
    /\ UNCHANGED <<current_request_id, startPc, startRet, events>>
    /\ UNCHANGED <<permPc, permThread, permGot, permResp, permission_rx, rxLock, nDecisions,
                   nNotifications, updates, observed>>
    /\ UNCHANGED <<termVars, sendVars>>



(***************************************************************************)
(* agent_v2_send_message and the task thread it spawns.                    *)
(***************************************************************************)
NextSendId == CHOOSE i \in SendIds :
                 /\ sendPc[i] = "unused"
                 /\ \A j \in SendIds : j < i => sendPc[j] # "unused"

\* the prompt text, as the parts it is made of: the formatted history
\* followed by the message when the task created the session and was given a
\* non-empty history, the message alone otherwise
PromptTextAlwaysHistory(need_new_session, history) ==
    IF history = "some" THEN <<"history", "message">> ELSE <<"message">>

PromptText(need_new_session, history) ==
    IF need_new_session /\ history # "absent"
    THEN IF history # "empty" THEN <<"history", "message">> ELSE <<"message">>
    ELSE <<"message">>

\* the command past the connection check: spawn the task thread and return Ok
SpawnTask(k) ==
    /\ Inputs < MaxInputs
    \* the keys are interchangeable: the first task is given "k1"
    /\ sendPc[1] = "unused" => k = "k1"
    /\ LET i == NextSendId IN
       /\ sendPc' = [sendPc EXCEPT ![i] = "lookup"]
       /\ sendKey' = [sendKey EXCEPT ![i] = k]
       /\ sendConn' = [sendConn EXCEPT ![i] = connection]
    /\ UNCHANGED <<process, connection, shutdown_tx, sessions,
                   current_request_id, startPc, startRet,
                   chan, adapter, noops, events>>
    /\ UNCHANGED <<sendSession, sendPrompt, adapterSessions, promptEvents>>
    /\ UNCHANGED <<termVars, permVars>>

SendMessageNoCheck(k) == SpawnTask(k)

\* the command itself: clone the connection or fail with "Not connected",
\* then spawn the task thread and return Ok
SendMessage(k) ==
    IF connection = None
    THEN /\ noops' = Noop("send")
         /\ UNCHANGED <<process, connection, shutdown_tx, sessions,
                        current_request_id, startPc, startRet,
                        chan, adapter, events>>
         /\ UNCHANGED <<termVars, sendVars, permVars>>
    ELSE SpawnTask(k)

GuardedAwaitsNewSession == {"new_session"}

\* the suspension points of a send task that lie inside the scope of a guard
\* of the sessions mutex: the guard of the lookup is dropped at the end of
\* its block, before new_session().await, and the guard of the insert is a
\* temporary of one statement
GuardedAwaits == {}

\* another task than i is suspended while it holds the sessions mutex
SessionsLocked(i) == \E j \in SendIds : j # i /\ sendPc[j] \in GuardedAwaits

\* read the cached session of the working directory, set the current request
\* id, and either issue new_session (nothing cached) or build the prompt text
\* and issue the prompt; h is the conversation_history the call was given,
\* which the task reads first when it builds the prompt text
TaskLookup(i, h) ==
    /\ sendPc[i] = "lookup"
    /\ ~SessionsLocked(i)
    /\ current_request_id' = i
    /\ IF sessions[sendKey[i]] = NoSession
       THEN /\ sendPc' = [sendPc EXCEPT ![i] = "new_session"]
            /\ UNCHANGED <<sendSession, sendPrompt>>
       ELSE /\ sendPc' = [sendPc EXCEPT ![i] = "prompt"]
            /\ sendSession' = [sendSession EXCEPT ![i] = sessions[sendKey[i]]]
            /\ sendPrompt' = [sendPrompt EXCEPT ![i] = PromptText(FALSE, h)]
    /\ UNCHANGED <<process, connection, shutdown_tx, sessions, startPc, startRet,
                   chan, adapter, noops, events>>
    /\ UNCHANGED <<sendKey, sendConn, promptEvents, adapterSessions>>
    /\ UNCHANGED <<termVars, permVars>>

\* the adapter creates a session for the cwd and its response reaches the task
NewSessionOk(i) ==
    /\ sendPc[i] = "new_session"
    /\ adapter[sendConn[i]] = "alive"
    /\ IoAlive(sendConn[i])
    /\ sendSession' = [sendSession EXCEPT ![i] = <<sendConn[i], i>>]
    /\ adapterSessions' = adapterSessions \cup {<<<<sendConn[i], i>>, sendKey[i]>>}
    /\ sendPc' = [sendPc EXCEPT ![i] = "insert"]
    /\ UNCHANGED <<sendKey, sendConn, promptEvents, sendPrompt>>
    /\ UNCHANGED <<termVars, supVars, permVars>>

\* new_session fails: `?` returns Err from the task, whose result is dropped
NewSessionErr(i) ==
    /\ sendPc[i] = "new_session"
    /\ sendPc' = [sendPc EXCEPT ![i] = "failed"]
    /\ UNCHANGED <<sendKey, sendConn, promptEvents, sendSession, sendPrompt,
                   adapterSessions>>
    /\ UNCHANGED <<termVars, supVars, permVars>>

TaskInsertEveryKey(i, h) ==
    /\ sendPc[i] = "insert"
    /\ sessions' = [k \in Keys |-> sendSession[i]]
    /\ events' = events \cup {Event("agent-session-created", sendSession[i], "", i)}
    /\ sendPrompt' = [sendPrompt EXCEPT ![i] = PromptText(TRUE, h)]
    /\ sendPc' = [sendPc EXCEPT ![i] = "prompt"]
    /\ UNCHANGED <<process, connection, shutdown_tx, current_request_id, startPc,
                   startRet, chan, adapter, noops>>
    /\ UNCHANGED <<sendKey, sendConn, promptEvents, sendSession, adapterSessions>>
    /\ UNCHANGED <<termVars, permVars>>

\* store the new session for the working directory, emit
\* agent-session-created, build the prompt text and issue the prompt
TaskInsert(i, h) ==
    /\ sendPc[i] = "insert"
    /\ ~SessionsLocked(i)
    /\ sessions' = [sessions EXCEPT ![sendKey[i]] = sendSession[i]]
    /\ events' = events \cup {Event("agent-session-created", sendSession[i], "", i)}
    /\ sendPrompt' = [sendPrompt EXCEPT ![i] = PromptText(TRUE, h)]
    /\ sendPc' = [sendPc EXCEPT ![i] = "prompt"]
    /\ UNCHANGED <<process, connection, shutdown_tx, current_request_id, startPc,
                   startRet, chan, adapter, noops>>
    /\ UNCHANGED <<sendKey, sendConn, promptEvents, sendSession, adapterSessions>>
    /\ UNCHANGED <<termVars, permVars>>

StopReasons == {"EndTurn", "MaxTokens"}

\* an event the task emits for the result of its prompt: the requestId is the
\* request id of the call that spawned task i
ResultEvent(type, i, reason) == [type |-> type, requestId |-> i, stopReason |-> reason]

ResultEventsCompleteFirst(i, ok, reason) ==
    IF ok
    THEN <<ResultEvent("agent-message-complete", i, reason)>>
            \o (IF reason = "MaxTokens"
                THEN <<ResultEvent("agent-max-tokens", i, "")>> ELSE <<>>)
    ELSE <<ResultEvent("agent-message-error", i, "")>>

\* the events emitted by the match on the prompt result, in order: for Ok,
\* agent-max-tokens if the stop reason is MaxTokens and then
\* agent-message-complete; for Err, agent-message-error
ResultEvents(i, ok, reason) ==
    IF ok
    THEN (IF reason = "MaxTokens"
          THEN <<ResultEvent("agent-max-tokens", i, "")>> ELSE <<>>)
            \o <<ResultEvent("agent-message-complete", i, reason)>>
    ELSE <<ResultEvent("agent-message-error", i, "")>>

\* the prompt returns Ok: agent-max-tokens if the stop reason says so, then
\* agent-message-complete
PromptOk(i, reason) ==
    /\ sendPc[i] = "prompt"
    /\ adapter[sendConn[i]] = "alive"
    /\ IoAlive(sendConn[i])
    /\ events' = events
          \cup (IF reason = "MaxTokens"
                THEN {Event("agent-max-tokens", <<i, 0>>, "", i)} ELSE {})
          \cup {Event("agent-message-complete", <<i, 0>>, reason, i)}
    /\ promptEvents' = [promptEvents EXCEPT ![i] = ResultEvents(i, TRUE, reason)]
    /\ sendPc' = [sendPc EXCEPT ![i] = "done"]
    /\ UNCHANGED <<process, connection, shutdown_tx, sessions, current_request_id,
                   startPc, startRet, chan, adapter, noops>>
    /\ UNCHANGED <<sendKey, sendConn, sendSession, sendPrompt,
                   adapterSessions>>
    /\ UNCHANGED <<termVars, permVars>>

\* the prompt returns Err: agent-message-error
PromptErr(i) ==
    /\ sendPc[i] = "prompt"
    /\ events' = events \cup {Event("agent-message-error", <<i, 0>>, "", i)}
    /\ promptEvents' = [promptEvents EXCEPT ![i] = ResultEvents(i, FALSE, "")]
    /\ sendPc' = [sendPc EXCEPT ![i] = "done"]
    /\ UNCHANGED <<process, connection, shutdown_tx, sessions, current_request_id,
                   startPc, startRet, chan, adapter, noops>>
    /\ UNCHANGED <<sendKey, sendConn, sendSession, sendPrompt,
                   adapterSessions>>
    /\ UNCHANGED <<termVars, permVars>>

(***************************************************************************)
(* request_permission, send_permission_response, session_notification.     *)
(***************************************************************************)
PermIds == 1..MaxPermInputs

\* FrontendPermissionResponse
\* (option_id "none" is None; the request ids are those of the first two
\* requests)
Decisions == [request_id : {1, 2}, option_id : {"none", "allow", "reject"},
              cancelled : BOOLEAN]
NoDecision == [request_id |-> 0, option_id |-> "none", cancelled |-> FALSE]

\* the conversion of the received decision into the protocol response:
\* Ok with outcome Cancelled, Ok with outcome Selected { option_id }, or
\* Err(internal_error)
NoResponse == [result |-> "none", outcome |-> "none", option_id |-> "none"]

ResponseOptionFirst(d) ==
    IF d.option_id # "none"
    THEN [result |-> "Ok", outcome |-> "Selected", option_id |-> d.option_id]
    ELSE IF d.cancelled
    THEN [result |-> "Ok", outcome |-> "Cancelled", option_id |-> "none"]
    ELSE [result |-> "Err", outcome |-> "internal_error", option_id |-> "none"]

Response(d) ==
    IF d.cancelled
    THEN [result |-> "Ok", outcome |-> "Cancelled", option_id |-> "none"]
    ELSE IF d.option_id # "none"
    THEN [result |-> "Ok", outcome |-> "Selected", option_id |-> d.option_id]
    ELSE [result |-> "Err", outcome |-> "internal_error", option_id |-> "none"]

\* where the call ends, by the response it returns
Outcome(d) ==
    IF d.cancelled THEN "ret_cancelled"
    ELSE IF d.option_id # "none" THEN "ret_selected"
    ELSE "ret_error"

\* permission_rx.lock().recv().await once the guard is held: a queued
\* decision is taken at once, otherwise the call suspends holding the guard
RecvWithGuard(r) ==
    IF permission_rx # <<>>
    THEN /\ permGot' = [permGot EXCEPT ![r] = Head(permission_rx)]
         /\ permResp' = [permResp EXCEPT ![r] = Response(Head(permission_rx))]
         /\ permission_rx' = Tail(permission_rx)
         /\ permPc' = [permPc EXCEPT ![r] = Outcome(Head(permission_rx))]
         /\ rxLock' = None
    ELSE /\ permPc' = [permPc EXCEPT ![r] = "recv"]
         /\ rxLock' = r
         /\ UNCHANGED <<permGot, permResp, permission_rx>>

\* the adapter sends a permission request on connection t: the handler, a
\* local task of thread t, emits permission-request and goes for the lock
RequestPermission(r, t) ==
    /\ permPc[r] = "unused"
    /\ \A q \in PermIds : q < r => permPc[q] # "unused"
    /\ Inputs < MaxPermInputs
    /\ AdapterTalks(t)
    /\ permThread' = [permThread EXCEPT ![r] = t]
    /\ events' = events \cup {Event("permission-request", <<r, current_request_id>>, "", r)}
    /\ IF rxLock = None
       THEN RecvWithGuard(r)
       ELSE /\ permPc' = [permPc EXCEPT ![r] = "lock"]
            /\ UNCHANGED <<permGot, permResp, permission_rx, rxLock>>
    /\ UNCHANGED <<nDecisions, nNotifications, updates, observed, stoppedWaiting>>
    /\ UNCHANGED <<process, connection, shutdown_tx, sessions, current_request_id,
                   startPc, startRet, chan, adapter, noops>>
    /\ UNCHANGED <<termVars, sendVars>>

\* a handler parked in lock() gets the guard once its holder let go
PermLockAcquired(r) ==
    /\ permPc[r] = "lock"
    /\ rxLock = None
    /\ RecvWithGuard(r)
    /\ UNCHANGED <<permThread, nDecisions, nNotifications, updates, observed, stoppedWaiting>>
    /\ UNCHANGED <<termVars, supVars, sendVars>>

\* a suspended recv() is woken by a queued decision
PermRecv(r) ==
    /\ permPc[r] = "recv"
    /\ permission_rx # <<>>
    /\ IoAlive(permThread[r])
    /\ RecvWithGuard(r)
    /\ UNCHANGED <<permThread, nDecisions, nNotifications, updates, observed, stoppedWaiting>>
    /\ UNCHANGED <<termVars, supVars, sendVars>>

\* AcpManager::send_permission_response: push the decision into the channel
SendPermissionResponse(d) ==
    /\ Inputs < MaxPermInputs
    /\ permission_rx' = Append(permission_rx, d)
    /\ nDecisions' = nDecisions + 1
    /\ UNCHANGED <<permPc, permThread, permGot, permResp, rxLock, nNotifications, updates, observed, stoppedWaiting>>
    /\ UNCHANGED <<process, connection, shutdown_tx, sessions, current_request_id,
                   startPc, startRet, chan, adapter, noops, events>>
    /\ UNCHANGED <<termVars, sendVars>>

\* the session updates whose handler reads current_request_id and emits an
\* event carrying sessionId and requestId
UpdateTypes == {"agent-message-chunk", "tool-call", "tool-call-update"}

\* the adapter of connection t writes a session update for the session that
\* task i's prompt is running on; n numbers the updates in the order they
\* were sent, and the update's type is drawn where the handler matches on it
AdapterUpdate(t, i) ==
    /\ Inputs < MaxPermInputs
    /\ AdapterTalks(t)
    /\ sendPc[i] = "prompt"
    /\ sendConn[i] = t
    /\ sendSession[i][1] = t
    /\ updates' = [updates EXCEPT ![t] =
          Append(@, [session |-> sendSession[i], origin |-> i,
                     n |-> nNotifications + 1])]
    /\ nNotifications' = nNotifications + 1
    /\ UNCHANGED <<permPc, permThread, permGot, permResp, permission_rx, rxLock, nDecisions,
                   observed, stoppedWaiting>>
    /\ UNCHANGED <<supVars, termVars, sendVars>>

NextUpdateNewest(t) == updates[t][Len(updates[t])]

\* the update at the head of the handlers that wait to run on thread t
NextUpdate(t) == Head(updates[t])

\* session_notification, run as a local task of thread t for one update: it
\* has no suspension point, so it runs from start to end in one step; origin
\* and n are carried along as history, they are not in the payload
SessionNotification(t, ty) ==
    /\ startPc[t] = "wait_shutdown"
    /\ IoAlive(t)
    /\ updates[t] # <<>>
    /\ LET u == NextUpdate(t) IN
          /\ observed' = Append(observed,
                [type |-> ty, sessionId |-> u.session,
                 requestId |-> current_request_id, origin |-> u.origin, n |-> u.n])
          /\ updates' = [updates EXCEPT ![t] = SelectSeq(@, LAMBDA x : x # u)]
    /\ UNCHANGED <<permPc, permThread, permGot, permResp, permission_rx, rxLock, nDecisions,
                   nNotifications, stoppedWaiting>>
    /\ UNCHANGED <<supVars, termVars, sendVars>>

(***************************************************************************)
(* The terminal registry (TerminalManager).  Its calls are made by the     *)
(* terminal handlers of the client, which run as local tasks of one start  *)
(* thread; the capture routines and the exit watcher of a terminal are     *)
(* spawned on that thread's runtime too.  A routine that calls lock()      *)
(* while a suspended kill() holds the guard parks the thread: nothing on   *)
(* it runs any more, the suspended kill() included.                        *)
(***************************************************************************)
\* what the other routines leave alone
RegFrame == UNCHANGED <<bufVars, termThread, supVars, sendVars, permVars>>

\* the inputs taken so far, against the bound: the calls made, the lines
\* written and the processes that ended by themselves
RegInputs == nCalls + nLines + Cardinality({t \in TermIds : child[t] = "ended"})

\* the value max_output_bytes.unwrap_or(..) falls back to
DefaultMaxOutputBytes == 1000000

\* the max_output_bytes arguments of create_terminal
CeilingInputs == {NoneOpt, Some(2)}

UnwrapOr(opt, default) == IF opt = NoneOpt THEN default ELSE opt[1]

\* a line a process writes to a stream, and the line feed put after it
LineOf(stream) == IF stream = "stdout" THEN <<"a">> ELSE <<"e2">>
LineFeed == <<"nl">>

\* Terminal::new
NewTerminal(max) == [output |-> <<>>, exit_status |-> NoneOpt, max_output_bytes |-> max]

\* Terminal::append_output on the terminal term
Appended(term, s) ==
    [term EXCEPT !.output = Truncated(term.output \o Encode(s), term.max_output_bytes)]

\* HashMap::insert, HashMap::remove
Insert(map, t, term) ==
    [x \in DOMAIN map \cup {t} |-> IF x = t THEN term ELSE map[x]]
Remove(map, t) == [x \in DOMAIN map \ {t} |-> map[x]]

\* ExitStatus::code().unwrap_or(-1) of a process that ended: its own code when
\* it ended by itself, no code when a signal killed it
ExitCodes == {0, 1}
ExitCode(t, code) == IF child[t] = "killed" THEN -1 ELSE code

\* a routine calls terminals.lock() while the guard is held: the thread parks
Park(routine) ==
    /\ parked' = routine
    /\ UNCHANGED <<terminals, killAwait, waitPc, waitMissed, watcher, ret>>

AsU32Magnitude(x) ==
    LET m == IF x < 0 THEN 0 - x ELSE x IN [hi |-> m \div 65536, lo |-> m % 65536]

\* `code as u32` of an i32: the value modulo 2^32, written as its two 16-bit
\* halves (the value is hi * 2^16 + lo)
AsU32(x) ==
    LET lo == x % 65536 IN [hi |-> ((x - lo) \div 65536) % 65536, lo |-> lo]

\* the exit code the client handlers put into TerminalExitStatus
WireExitCode(status) == IF status = NoneOpt THEN NoneOpt ELSE Some(AsU32(status[1]))

\* what a call returns: the Result of the TerminalManager method, and with
\* wire the exit code of the response the client handler builds from it
Return(op, t, res, out, status) ==
    ret' = [op |-> op, id |-> t, res |-> res, output |-> out, exit_status |-> status,
            wire |-> WireExitCode(status), n |-> ret.n + 1]

\* an event the terminal handlers of the client emit
TermEvent(type, t, out, status) ==
    [type |-> type, terminalId |-> t, output |-> out, exitStatus |-> status]

TerminalCreatedAlways(ok, t) == {TermEvent("terminal-created", t, <<>>, NoneOpt)}

\* ThinkingSpaceClient::create_terminal after the manager's call: an Err
\* returns at the `?`, an Ok is followed by terminal-created
TerminalCreated(ok, t) ==
    IF ok THEN {TermEvent("terminal-created", t, <<>>, NoneOpt)} ELSE {}

\* the uuid of the next terminal
NextTermId ==
    IF \E t \in TermIds : child[t] = "unspawned"
    THEN CHOOSE t \in TermIds :
            child[t] = "unspawned" /\ \A u \in TermIds : child[u] = "unspawned" => t <= u
    ELSE None

\* TerminalManager::create_terminal, called on thread th (None: called
\* directly); spawned tells whether cmd.spawn() worked; the capture routines
\* and the exit watcher are spawned on the runtime of the calling thread
CreateTerminal(th, ceiling, spawned) ==
    /\ parked = ""
    /\ RegInputs < MaxCalls
    /\ NextTermId # None
    /\ nCalls' = nCalls + 1
    /\ LET t == NextTermId IN
       IF ~spawned
       THEN /\ Return("create_terminal", None, "Failed to spawn terminal", <<>>, NoneOpt)
            /\ termEvents' = termEvents \cup TerminalCreated(FALSE, t)
            /\ UNCHANGED <<terminals, child, killAwait, parked, waitPc, waitMissed, watcher,
                           termThread>>
       ELSE /\ child' = [child EXCEPT ![t] = "running"]
            /\ IF killAwait # None
               THEN /\ Park("create_terminal")
                    /\ UNCHANGED <<watcher, termEvents, termThread>>
               ELSE /\ terminals' = Insert(terminals, t,
                                           NewTerminal(UnwrapOr(ceiling, DefaultMaxOutputBytes)))
                    /\ watcher' = [watcher EXCEPT ![t] = "polling"]
                    /\ termThread' = [termThread EXCEPT ![t] = th]
                    /\ Return("create_terminal", t, "Ok", <<>>, NoneOpt)
                    /\ termEvents' = termEvents \cup TerminalCreated(TRUE, t)
                    /\ UNCHANGED <<killAwait, parked, waitPc, waitMissed>>
    /\ UNCHANGED <<nLines, pipe>>
    /\ UNCHANGED <<bufVars, supVars, sendVars, permVars>>

GetOutputDefaultForMissing(t) ==
    /\ parked = ""
    /\ RegInputs < MaxCalls
    /\ nCalls' = nCalls + 1
    /\ IF killAwait # None
       THEN Park("get_output")
       ELSE /\ IF t \in DOMAIN terminals
               THEN Return("get_output", t, "Ok", terminals[t].output, terminals[t].exit_status)
               ELSE Return("get_output", t, "Ok", <<>>, NoneOpt)
            /\ UNCHANGED <<terminals, killAwait, parked, waitPc, waitMissed, watcher>>
    /\ UNCHANGED <<child, nLines, pipe>>
    /\ UNCHANGED termEvents
    /\ RegFrame

\* TerminalManager::get_output, and the terminal-output event the client's
\* terminal_output emits when it succeeded
GetOutput(t) ==
    /\ parked = ""
    /\ RegInputs < MaxCalls
    /\ nCalls' = nCalls + 1
    /\ IF killAwait # None
       THEN Park("get_output") /\ UNCHANGED termEvents
       ELSE /\ IF t \in DOMAIN terminals
               THEN /\ Return("get_output", t, "Ok", terminals[t].output,
                              terminals[t].exit_status)
                    /\ termEvents' = termEvents \cup
                          {TermEvent("terminal-output", t, terminals[t].output,
                                     terminals[t].exit_status)}
               ELSE /\ Return("get_output", t, "Terminal not found", <<>>, NoneOpt)
                    /\ UNCHANGED termEvents
            /\ UNCHANGED <<terminals, killAwait, parked, waitPc, waitMissed, watcher>>
    /\ UNCHANGED <<child, nLines, pipe>>
    /\ RegFrame

KillRemovesTerminal(t) ==
    /\ parked = ""
    /\ RegInputs < MaxCalls
    /\ nCalls' = nCalls + 1
    /\ IF killAwait # None
       THEN Park("kill") /\ UNCHANGED child
       ELSE /\ terminals' = Remove(terminals, t)
            /\ child' = [child EXCEPT ![t] = IF @ = "running" THEN "killed" ELSE @]
            /\ Return("kill", t, "Ok", <<>>, NoneOpt)
            /\ UNCHANGED <<killAwait, parked, waitPc, waitMissed, watcher>>
    /\ UNCHANGED <<nLines, pipe>>
    /\ UNCHANGED termEvents
    /\ RegFrame

\* TerminalManager::kill up to process.kill().await: a terminal that is not
\* there gives Ok(()); a child whose exit the watcher has already collected
\* cannot be killed; otherwise the signal is sent and the call suspends until
\* the child is reaped, the guard of terminals still alive
Kill(t) ==
    /\ parked = ""
    /\ RegInputs < MaxCalls
    /\ nCalls' = nCalls + 1
    /\ IF killAwait # None
       THEN Park("kill") /\ UNCHANGED child
       ELSE IF t \notin DOMAIN terminals
       THEN /\ Return("kill", t, "Ok", <<>>, NoneOpt)
            /\ UNCHANGED <<terminals, child, killAwait, parked, waitPc, waitMissed, watcher>>
       ELSE IF terminals[t].exit_status # NoneOpt
       THEN /\ Return("kill", t, "Failed to kill terminal", <<>>, NoneOpt)
            /\ UNCHANGED <<terminals, child, killAwait, parked, waitPc, waitMissed, watcher>>
       ELSE /\ killAwait' = t
            /\ child' = [child EXCEPT ![t] = IF @ = "running" THEN "killed" ELSE @]
            /\ UNCHANGED <<terminals, parked, waitPc, waitMissed, watcher, ret>>
    /\ UNCHANGED <<nLines, pipe>>
    /\ UNCHANGED termEvents
    /\ RegFrame

\* the child of the suspended kill() is reaped: kill() drops the guard and
\* returns Ok(())
KillResume(t) ==
    /\ parked = ""
    /\ killAwait = t
    /\ killAwait' = None
    /\ Return("kill", t, "Ok", <<>>, NoneOpt)
    /\ UNCHANGED <<terminals, child, parked, waitPc, waitMissed, watcher, nCalls, nLines, pipe>>
    /\ UNCHANGED termEvents
    /\ RegFrame

ReleaseKeepsProcess(t) ==
    /\ parked = ""
    /\ RegInputs < MaxCalls
    /\ nCalls' = nCalls + 1
    /\ IF killAwait # None
       THEN Park("release") /\ UNCHANGED child
       ELSE /\ terminals' = Remove(terminals, t)
            /\ UNCHANGED child
            /\ Return("release", t, "Ok", <<>>, NoneOpt)
            /\ UNCHANGED <<killAwait, parked, waitPc, waitMissed, watcher>>
    /\ UNCHANGED <<nLines, pipe>>
    /\ UNCHANGED termEvents
    /\ RegFrame

\* TerminalManager::release: the removed Terminal is dropped, and with it the
\* Child, which was spawned with kill_on_drop(true)
Release(t) ==
    /\ parked = ""
    /\ RegInputs < MaxCalls
    /\ nCalls' = nCalls + 1
    /\ IF killAwait # None
       THEN Park("release") /\ UNCHANGED child
       ELSE /\ terminals' = Remove(terminals, t)
            /\ child' = [child EXCEPT ![t] =
                  IF t \in DOMAIN terminals /\ @ = "running" THEN "killed" ELSE @]
            /\ Return("release", t, "Ok", <<>>, NoneOpt)
            /\ UNCHANGED <<killAwait, parked, waitPc, waitMissed, watcher>>
    /\ UNCHANGED <<nLines, pipe>>
    /\ UNCHANGED termEvents
    /\ RegFrame

WaitRoundReturnsAtOnce(t) ==
    IF killAwait # None
    THEN Park("wait_for_exit")
    ELSE /\ Return("wait_for_exit", t, "Ok", <<>>, Some(0))
         /\ waitPc' = [waitPc EXCEPT ![t] = "idle"]
         /\ UNCHANGED <<terminals, killAwait, parked, watcher, waitMissed>>

\* one round of the loop of wait_for_exit on terminal t
WaitRound(t) ==
    IF killAwait # None
    THEN Park("wait_for_exit")
    ELSE /\ IF t \in DOMAIN terminals /\ terminals[t].exit_status # NoneOpt
            THEN /\ Return("wait_for_exit", t, "Ok", <<>>, terminals[t].exit_status)
                 /\ waitPc' = [waitPc EXCEPT ![t] = "idle"]
                 /\ UNCHANGED waitMissed
            ELSE /\ waitPc' = [waitPc EXCEPT ![t] = "sleeping"]
                 /\ waitMissed' = IF t \in DOMAIN terminals
                                  THEN waitMissed ELSE waitMissed \cup {t}
                 /\ UNCHANGED ret
         /\ UNCHANGED <<terminals, killAwait, parked, watcher>>

\* TerminalManager::wait_for_exit: the call and its first round
WaitForExit(t) ==
    /\ parked = ""
    /\ RegInputs < MaxCalls
    /\ waitPc[t] = "idle"
    /\ nCalls' = nCalls + 1
    /\ WaitRound(t)
    /\ UNCHANGED <<child, nLines, pipe>>
    /\ UNCHANGED termEvents
    /\ RegFrame

\* a later round, after the sleep of 100 ms
WaitPoll(t) ==
    /\ parked = ""
    /\ waitPc[t] = "sleeping"
    /\ WaitRound(t)
    /\ UNCHANGED <<child, nCalls, nLines, pipe>>
    /\ UNCHANGED termEvents
    /\ RegFrame

\* the process of terminal t writes a line to one of its streams
ProcessWrites(t, stream) ==
    /\ child[t] = "running"
    /\ watcher[t] # "dropped"
    /\ RegInputs < MaxCalls
    /\ nLines < MaxLines
    /\ nLines' = nLines + 1
    /\ pipe' = [pipe EXCEPT ![t][stream] = @ + 1]
    /\ UNCHANGED <<terminals, child, killAwait, parked, waitPc, waitMissed, watcher, ret,
                   nCalls>>
    /\ UNCHANGED termEvents
    /\ RegFrame

CapturedNoLineFeed(term, line) == Appended(term, line)

\* the two append_output calls of one round of a capture routine, made under
\* one guard of terminals
Captured(term, line) == Appended(Appended(term, line), LineFeed)

\* the capture routine of one stream of terminal t reads a line its process
\* wrote and appends it and a line feed to the terminal's buffer, if the
\* terminal is there
CaptureLine(t, stream) ==
    /\ parked = ""
    /\ watcher[t] \notin {"none", "dropped"}
    /\ pipe[t][stream] > 0
    /\ pipe' = [pipe EXCEPT ![t][stream] = @ - 1]
    /\ IF killAwait # None
       THEN Park("capture")
       ELSE /\ terminals' = IF t \in DOMAIN terminals
                            THEN [terminals EXCEPT ![t] = Captured(@, LineOf(stream))]
                            ELSE terminals
            /\ UNCHANGED <<killAwait, parked, waitPc, waitMissed, watcher, ret>>
    /\ UNCHANGED <<child, nCalls, nLines>>
    /\ UNCHANGED termEvents
    /\ RegFrame

\* the positions at which an exit watcher goes on polling: "orphan" is the
\* position after a round that found its terminal gone
Polling == {"polling", "orphan"}

\* one round of the exit watcher of terminal t in which it does something:
\* it parks; or its terminal is gone and it goes on; or try_wait() fails and
\* -1 is recorded; or try_wait() finds the process ended and its code is
\* recorded
WatcherPoll(t, failed, code) ==
    /\ parked = ""
    /\ watcher[t] \in Polling
    /\ IF killAwait # None
       THEN Park("exit_watcher")
       ELSE IF t \notin DOMAIN terminals
       THEN /\ watcher[t] = "polling"
            /\ watcher' = [watcher EXCEPT ![t] = "orphan"]
            /\ UNCHANGED <<terminals, killAwait, parked, waitPc, waitMissed, ret>>
       ELSE /\ failed \/ child[t] \in {"ended", "killed"}
            /\ terminals' = [terminals EXCEPT ![t].exit_status =
                  Some(IF failed THEN -1 ELSE ExitCode(t, code))]
            /\ watcher' = [watcher EXCEPT ![t] = IF failed THEN "failed" ELSE "done"]
            /\ UNCHANGED <<killAwait, parked, waitPc, waitMissed, ret>>
    /\ UNCHANGED <<child, nCalls, nLines, pipe>>
    /\ UNCHANGED termEvents
    /\ RegFrame

\* the process of terminal t ends by itself
ProcessEnds(t) ==
    /\ RegInputs < MaxCalls
    /\ child[t] = "running"
    /\ child' = [child EXCEPT ![t] = "ended"]
    /\ UNCHANGED <<terminals, killAwait, parked, waitPc, waitMissed, watcher, ret,
                   nCalls, nLines, pipe>>
    /\ UNCHANGED termEvents
    /\ RegFrame

(***************************************************************************)
(* Initial states and specifications.                                      *)
(***************************************************************************)
\* AcpManager::new followed by set_app_handle
SupInit ==
    /\ process = None
    /\ connection = None
    /\ shutdown_tx = None
    /\ sessions = [k \in Keys |-> NoSession]
    /\ current_request_id = None
    /\ startPc = [t \in StartIds |-> "unused"]
    /\ startRet = [t \in StartIds |-> "none"]
    /\ chan = [t \in StartIds |-> "none"]
    /\ adapter = [t \in StartIds |-> "none"]
    /\ noops = [start |-> 0, stop |-> 0, send |-> 0]
    /\ events = {}

SendInit ==
    /\ sendPc = [i \in SendIds |-> "unused"]
    /\ sendKey = [i \in SendIds |-> ""]
    /\ sendConn = [i \in SendIds |-> None]
    /\ sendSession = [i \in SendIds |-> NoSession]
    /\ sendPrompt = [i \in SendIds |-> <<>>]
    /\ adapterSessions = {}
    /\ promptEvents = [i \in SendIds |-> <<>>]

\* ThinkingSpaceClient::new
PermInit ==
    /\ permPc = [r \in PermIds |-> "unused"]
    /\ permThread = [r \in PermIds |-> None]
    /\ permGot = [r \in PermIds |-> NoDecision]
    /\ permResp = [r \in PermIds |-> NoResponse]
    /\ permission_rx = <<>>
    /\ rxLock = None
    /\ nDecisions = 0
    /\ nNotifications = 0
    /\ updates = [t \in StartIds |-> <<>>]
    /\ observed = <<>>
    /\ stoppedWaiting = {}

Init == TermIdle /\ SupInit /\ SendInit /\ PermInit

SupervisorNext ==
    \/ StartCall
    \/ Stop
    \/ \E t \in StartIds :
          \/ ThreadSpawn(t)
          \/ ThreadInitializeOk(t)
          \/ ThreadInitializeErr(t)
          \/ ThreadStoreConnection(t)
          \/ ThreadStoreProcess(t)
          \/ ThreadShutdown(t)
          \/ AdapterExits(t)

SendNext ==
    \/ \E k \in Keys : SendMessage(k)
    \/ \E i \in SendIds :
          \/ \E h \in Histories : TaskLookup(i, h)
          \/ NewSessionOk(i)
          \/ NewSessionErr(i)
          \/ \E h \in Histories : TaskInsert(i, h)
          \/ PromptErr(i)
          \/ \E reason \in StopReasons : PromptOk(i, reason)

PermNext ==
    \/ \E r \in PermIds :
          \/ \E t \in StartIds : RequestPermission(r, t)
          \/ PermLockAcquired(r)
          \/ PermRecv(r)
    \/ \E d \in Decisions : SendPermissionResponse(d)

NotifyNext ==
    \/ \E t \in StartIds, i \in SendIds : AdapterUpdate(t, i)
    \/ \E t \in StartIds, ty \in UpdateTypes : SessionNotification(t, ty)

Next == SupervisorNext \/ SendNext

Spec == Init /\ [][Next]_vars

\* a start thread, once spawned, runs: each of its steps is taken when it stays
\* possible; so does a send-message task thread (an awaited response comes as
\* Ok or, at the latest when the connection is lost, as Err)
StartThreadStep ==
    \E t \in StartIds :
        \/ ThreadSpawn(t)
        \/ ThreadInitializeOk(t)
        \/ ThreadInitializeErr(t)
        \/ ThreadStoreConnection(t)
        \/ ThreadStoreProcess(t)
        \/ ThreadShutdown(t)

TaskStep ==
    \E i \in SendIds :
        \/ \E h \in Histories : TaskLookup(i, h)
        \/ NewSessionOk(i)
        \/ NewSessionErr(i)
        \/ \E h \in Histories : TaskInsert(i, h)
        \/ PromptErr(i)
        \/ \E reason \in StopReasons : PromptOk(i, reason)

SpecLive == Init /\ [][Next]_vars /\ WF_vars(StartThreadStep) /\ WF_vars(TaskStep)

NextPerm == SupervisorNext \/ PermNext

\* starting the supervisor and answering permission requests, with no stop()
NextReply ==
    \/ StartCall
    \/ \E t \in StartIds :
          \/ ThreadSpawn(t)
          \/ ThreadInitializeOk(t)
          \/ ThreadInitializeErr(t)
          \/ ThreadStoreConnection(t)
          \/ ThreadStoreProcess(t)
          \/ ThreadShutdown(t)
    \/ \E r \in PermIds :
          \/ \E t \in StartIds : RequestPermission(r, t)
          \/ PermRecv(r)
    \/ \E d \in Decisions : SendPermissionResponse(d)

SpecReply == Init /\ [][NextReply]_vars

\* the supervisor and the send-message tasks, with the adapters' session updates
NextNotify == Next \/ NotifyNext

SpecNotify == Init /\ [][NextNotify]_vars

\* the same with no stop() and no adapter ending on its own
NextOrder ==
    \/ StartCall
    \/ \E t \in StartIds :
          \/ ThreadSpawn(t)
          \/ ThreadInitializeOk(t)
          \/ ThreadInitializeErr(t)
          \/ ThreadStoreConnection(t)
          \/ ThreadStoreProcess(t)
    \/ SendNext
    \/ NotifyNext

SpecOrder == Init /\ [][NextOrder]_vars

SpecPerm == Init /\ [][NextPerm]_vars

NextTerminal ==
    /\ \E s \in AppendInputs : AppendOutput(s)
    /\ UNCHANGED <<supVars, sendVars, permVars>>

InitTerminalOnly == InitTerminal /\ SupInit /\ SendInit /\ PermInit

SpecTerminal == InitTerminalOnly /\ [][NextTerminal]_vars

\* the terminal registry under arbitrary calls of the adapter
NextRegistry ==
    \/ \E c \in CeilingInputs, ok \in BOOLEAN : CreateTerminal(None, c, ok)
    \/ \E t \in TermIds :
          \/ GetOutput(t)
          \/ Kill(t)
          \/ KillResume(t)
          \/ Release(t)
          \/ WaitForExit(t)
          \/ WaitPoll(t)
          \/ \E st \in Streams : ProcessWrites(t, st)
          \/ \E st \in Streams : CaptureLine(t, st)
          \/ \E failed \in BOOLEAN, code \in ExitCodes : WatcherPoll(t, failed, code)
          \/ ProcessEnds(t)

SpecRegistry == Init /\ [][NextRegistry]_vars

\* the inputs taken so far by the supervisor and by the registry together
RestartInputs == Inputs + RegInputs

\* start and stop, while the bound allows; start is called when at most one
\* thread started earlier has not ended yet
RestartStartCall ==
    /\ RestartInputs < MaxRestartInputs
    /\ Cardinality({t \in StartIds : startPc[t] \notin {"unused", "exit", "failed"}}) <= 1
    /\ StartCall

RestartStop ==
    /\ RestartInputs < MaxRestartInputs
    /\ Stop

\* the routines of terminal t are polled: the thread on whose runtime they
\* were spawned is driving its LocalSet
RoutineRuns(t) ==
    /\ termThread[t] # None
    /\ startPc[termThread[t]] = "wait_shutdown"
    /\ ~Blocked(termThread[t])

\* the adapter of connection th sends a terminal/create request, which the
\* connection dispatches to ThinkingSpaceClient::create_terminal on thread th
ClientCreateTerminal(th, ceiling, spawned) ==
    /\ RestartInputs < MaxRestartInputs
    /\ AdapterTalks(th)
    /\ CreateTerminal(th, ceiling, spawned)

\* the same for terminal/output, handled by terminal_output
ClientTerminalOutput(th, t) ==
    /\ RestartInputs < MaxRestartInputs
    /\ AdapterTalks(th)
    /\ GetOutput(t)

\* the same for terminal/release, handled by release_terminal
ClientReleaseTerminal(th, t) ==
    /\ RestartInputs < MaxRestartInputs
    /\ AdapterTalks(th)
    /\ Release(t)

\* a capture routine of terminal t, polled by the runtime it was spawned on
ThreadCaptureLine(t, stream) ==
    /\ RoutineRuns(t)
    /\ CaptureLine(t, stream)

\* the exit watcher of terminal t, polled by the runtime it was spawned on
ThreadWatcherPoll(t, failed, code) ==
    /\ RoutineRuns(t)
    /\ WatcherPoll(t, failed, code)

\* the process of a terminal writes a line, or ends, while the bound allows
ChildWrites(t, stream) ==
    /\ RestartInputs < MaxRestartInputs
    /\ ProcessWrites(t, stream)

ChildEnds(t) ==
    /\ RestartInputs < MaxRestartInputs
    /\ ProcessEnds(t)

\* the process of terminal t writes to a pipe whose read end went with the
\* dropped capture routine: the write raises SIGPIPE, which ends the process
BrokenPipe(t) ==
    /\ RestartInputs < MaxRestartInputs
    /\ child[t] = "running"
    /\ watcher[t] = "dropped"
    /\ nLines' = nLines + 1
    /\ child' = [child EXCEPT ![t] = "killed"]
    /\ UNCHANGED <<terminals, killAwait, parked, waitPc, waitMissed, watcher, ret,
                   nCalls, pipe, termEvents>>
    /\ RegFrame

\* the supervisor, started and stopped, and the terminals its adapters create,
\* read and release; no adapter ends on its own, the terminals have the
\* default ceiling and their processes end with code 0
NextRestart ==
    \/ RestartStartCall
    \/ RestartStop
    \/ \E th \in StartIds :
          \/ ThreadSpawn(th)
          \/ ThreadInitializeOk(th)
          \/ ThreadInitializeErr(th)
          \/ ThreadStoreConnection(th)
          \/ ThreadStoreProcess(th)
          \/ ThreadShutdown(th)
          \/ \E ok \in BOOLEAN : ClientCreateTerminal(th, NoneOpt, ok)
          \/ \E t \in TermIds : ClientTerminalOutput(th, t)
          \/ \E t \in TermIds : ClientReleaseTerminal(th, t)
    \/ \E t \in TermIds :
          \/ \E st \in Streams : ChildWrites(t, st)
          \/ \E st \in Streams : ThreadCaptureLine(t, st)
          \/ ThreadWatcherPoll(t, FALSE, 0)
          \/ ChildEnds(t)
          \/ BrokenPipe(t)

SpecRestart == Init /\ [][NextRestart]_vars

(***************************************************************************)
(* C1: concurrent send-message calls for one working directory create      *)
(* exactly one session on the adapter: on every connection, at most one    *)
(* session is ever created for a key, at most one agent-session-created    *)
(* event is emitted for it, and all calls for that key prompt on the same  *)
(* session id.                                                             *)
(***************************************************************************)
SessionsCreatedFor(k, a) == {s \in adapterSessions : s[2] = k /\ s[1][1] = a}

C1_OneSessionPerKey ==
    \A k \in Keys, a \in StartIds :
        /\ Cardinality(SessionsCreatedFor(k, a)) <= 1
        /\ Cardinality({e \in events :
                           /\ e.type = "agent-session-created"
                           /\ \E s \in SessionsCreatedFor(k, a) : e.id = s[1]}) <= 1
        /\ \A i, j \in SendIds :
              /\ sendPc[i] \in {"prompt", "done"}
              /\ sendPc[j] \in {"prompt", "done"}
              /\ sendKey[i] = k /\ sendKey[j] = k
              /\ sendConn[i] = a /\ sendConn[j] = a
              => sendSession[i] = sendSession[j]

(***************************************************************************)
(* C2: a request_permission call returns an outcome only from a decision   *)
(* whose request_id is the id the call generated.                          *)
(***************************************************************************)
C2_DecisionReachesOwnRequest ==
    \A r \in PermIds :
        permPc[r] \in {"ret_selected", "ret_cancelled"} => permGot[r].request_id = r

(***************************************************************************)
(* C3: several permission requests may be outstanding at once and the      *)
(* thread that runs the handlers keeps making progress: no handler is ever *)
(* parked in lock() behind a guard that a suspended handler of the same    *)
(* thread holds (from there neither can ever run again).                   *)
(***************************************************************************)
C3_NoHandlerDeadlock ==
    \A r \in PermIds :
        permPc[r] = "lock" => ~(rxLock # None /\ permThread[rxLock] = permThread[r])

(***************************************************************************)
(* C4: a request_permission call that was waiting when stop() ran ends     *)
(* with a definite failure: once the thread that runs its handler has      *)
(* wound down, the call has returned an error.                             *)
(***************************************************************************)
C4_StoppedWaitEndsWithFailure ==
    \A r \in stoppedWaiting :
        startPc[permThread[r]] = "exit" => permPc[r] = "ret_error"

(***************************************************************************)
(* C7: at most one adapter subprocess is alive at any time, and stop()     *)
(* leaves no spawned adapter alive.                                        *)
(***************************************************************************)
AliveAdapters == {t \in StartIds : adapter[t] = "alive"}

C7_SingleAdapter ==
    [][/\ Cardinality(AliveAdapters') <= 1
       /\ Stop => AliveAdapters' = {}]_vars

(***************************************************************************)
(* C8: start() called while a process handle is stored changes nothing:    *)
(* no thread, no channel, no subprocess, no event, and the connection, the *)
(* process handle, the shutdown sender and the sessions stay as they are.  *)
(***************************************************************************)
C8_StartWhenRunningIsNoop ==
    [][process # None /\ StartCall =>
          UNCHANGED <<process, connection, shutdown_tx, sessions, current_request_id,
                      startPc, startRet, chan, adapter, events, sendVars, permVars>>]_vars

\* start() has been called with a process handle stored and has returned
C8_Witness == process # None /\ noops.start > 0

(***************************************************************************)
(* C9: when spawning or the initialize handshake fails, start()'s caller   *)
(* gets an error, and right after the failure there is no connection, no   *)
(* process handle, no shutdown sender and the adapter is not alive.        *)
(***************************************************************************)
C9_FailedStartLeavesNothing ==
    [][\A t \in StartIds :
          startPc[t] \in {"spawn", "initialize"} /\ startPc'[t] = "failed" =>
             /\ startRet'[t] = "Err"
             /\ process' = None
             /\ connection' = None
             /\ shutdown_tx' = None
             /\ adapter'[t] # "alive"]_vars

(***************************************************************************)
(* C10: stop() always leaves no connection, no process handle, no shutdown *)
(* sender and an empty registry, and called in that state it changes       *)
(* nothing; so a second stop() in a row leaves what the first one left.    *)
(***************************************************************************)
C10_StopIdempotent ==
    [][Stop =>
          /\ SupStopped'
          /\ SupStopped =>
                UNCHANGED <<process, connection, shutdown_tx, sessions,
                            current_request_id, startPc, startRet, chan, adapter,
                            events, sendVars, permPc, permThread, permGot, permResp,
                            permission_rx, rxLock>>]_vars

\* a stop() that killed an adapter, and later a stop() that found nothing to stop
C10_Witness ==
    /\ noops.stop > 0
    /\ \E t \in StartIds : adapter[t] = "dead"
    /\ SupStopped

(***************************************************************************)
(* C5: after every append_output call the buffer is valid text and its     *)
(* byte length is at most max_output_bytes, for every ceiling from 0 on.   *)
(***************************************************************************)
C5_BufferValidAndBounded ==
    /\ ValidText(output)
    /\ Len(output) <= max_output_bytes

\* an append that cut inside a multi-byte character and had to scan forward
C5_Witness ==
    /\ nAppends > 0
    /\ Len(appended) > max_output_bytes
    /\ ~IsCharBoundary(appended, Len(appended) - max_output_bytes)
    /\ Len(output) < max_output_bytes

\* the longest suffix of buf that begins on a character boundary and has at
\* most max bytes, found by trying every start
BoundarySuffixStarts(buf, max) ==
    {i \in 0..Len(buf) : IsCharBoundary(buf, i) /\ Len(buf) - i <= max}

LongestBoundarySuffix(buf, max) ==
    LET starts == BoundarySuffixStarts(buf, max)
        best == CHOOSE i \in starts : \A j \in starts : i <= j
    IN SliceFrom(buf, best)

(***************************************************************************)
(* C6: after any sequence of appends the buffer is the longest suffix of   *)
(* everything appended that begins on a character boundary and has at most *)
(* max_output_bytes bytes; truncating after each append equals truncating  *)
(* the whole concatenation once.                                           *)
(***************************************************************************)
C6_LongestSuffixOfAppended ==
    /\ output = LongestBoundarySuffix(appended, max_output_bytes)
    /\ output = Truncated(appended, max_output_bytes)

\* two appends, the first already truncated, the second truncated again
C6_Witness ==
    /\ nTruncations >= 2
    /\ Len(output) > 0
    /\ Len(output) < max_output_bytes

(***************************************************************************)
(* C11: start() and stop() serialize: once stop() has returned and no      *)
(* start() was called after it (the shutdown sender is still taken), the   *)
(* supervisor stays not running: no connection and no process handle is    *)
(* stored by a start thread that was still at work when stop() ran.        *)
(***************************************************************************)
C11_StoppedStaysStopped ==
    shutdown_tx = None => connection = None /\ process = None

(***************************************************************************)
(* C12: a send-message call that finds no connection stored returns "Not   *)
(* connected" and has no effect: it spawns no task, leaves the current     *)
(* request id, the sessions and the events as they are; all it leaves is   *)
(* the record that the call was made and failed.                           *)
(***************************************************************************)
C12_SendWhenNotConnectedFails ==
    [][\A k \in Keys :
          connection = None /\ SendMessage(k) =>
             /\ UNCHANGED <<process, connection, shutdown_tx, sessions,
                            current_request_id, startPc, startRet, chan,
                            adapter, events>>
             /\ UNCHANGED <<sendVars, permVars>>
             /\ noops' = [noops EXCEPT !["send"] = noops.send + 1]]_vars

\* a call failed with "Not connected" after a start thread had been spawned
C12_Witness ==
    /\ noops.send > 0
    /\ connection = None
    /\ \E t \in StartIds : startPc[t] # "unused"

(***************************************************************************)
(* C13: a stored connection is one whose initialize handshake has          *)
(* completed successfully.  The start thread is past the handshake         *)
(* whenever its connection is stored, whenever agent-ready was emitted for *)
(* it, and whenever a send-message task holds its connection; and the only *)
(* way past the handshake is the Ok response of a live adapter.            *)
(***************************************************************************)
PastHandshake(t) == startPc[t] \in {"store_connection", "store_process", "wait_shutdown", "exit"}

C13_StoredConnectionIsInitialized ==
    /\ [](/\ connection # None => PastHandshake(connection)
          /\ \A e \in events : e.type = "agent-ready" => PastHandshake(e.by)
          /\ \A i \in SendIds :
                sendPc[i] # "unused" => sendConn[i] # None /\ PastHandshake(sendConn[i]))
    /\ [][\A t \in StartIds :
             ~PastHandshake(t) /\ PastHandshake(t)' =>
                startPc[t] = "initialize" /\ adapter[t] = "alive" /\ ThreadInitializeOk(t)]_vars

\* a task has issued its prompt on a stored connection after agent-ready
C13_Witness ==
    /\ connection # None
    /\ \E e \in events : e.type = "agent-ready" /\ e.by = connection
    /\ \E i \in SendIds : sendPc[i] = "prompt" /\ sendConn[i] = connection

(***************************************************************************)
(* C14: when the adapter whose handle is stored has ended on its own, with  *)
(* no stop() called since the start() that spawned it (its shutdown sender *)
(* is still stored), the supervisor eventually becomes not running: the    *)
(* connection and the process handle are discarded.                        *)
(***************************************************************************)
C14_ExitedAdapterLeadsToNotRunning ==
    (process # None /\ shutdown_tx = process /\ adapter[process] = "exited")
        ~> (process = None /\ connection = None)

(***************************************************************************)
(* C15: every send-message call that returned Ok (its task thread was      *)
(* spawned) is eventually followed by an agent-message-complete,           *)
(* agent-message-error or agent-max-tokens event carrying its request id.  *)
(***************************************************************************)
Reported(i) ==
    \E e \in events :
        /\ e.type \in {"agent-message-complete", "agent-message-error", "agent-max-tokens"}
        /\ e.id = <<i, 0>>

C15_EverySendIsReported ==
    \A i \in SendIds : (sendPc[i] # "unused") ~> Reported(i)

(***************************************************************************)
(* C16: the response request_permission returns is determined by the       *)
(* decision it received: cancelled gives Ok with outcome Cancelled, also   *)
(* when an option id is present; not cancelled with an option id gives Ok  *)
(* with outcome Selected carrying that option id; not cancelled with no    *)
(* option id gives an internal error.                                      *)
(***************************************************************************)
C16_ResponseFollowsDecision ==
    \A r \in PermIds :
        permPc[r] \in {"ret_cancelled", "ret_selected", "ret_error"} =>
            LET d == permGot[r]
                resp == permResp[r]
            IN /\ d.cancelled =>
                     /\ permPc[r] = "ret_cancelled"
                     /\ resp.result = "Ok" /\ resp.outcome = "Cancelled"
               /\ ~d.cancelled /\ d.option_id # "none" =>
                     /\ permPc[r] = "ret_selected"
                     /\ resp.result = "Ok" /\ resp.outcome = "Selected"
                     /\ resp.option_id = d.option_id
               /\ ~d.cancelled /\ d.option_id = "none" =>
                     /\ permPc[r] = "ret_error"
                     /\ resp.result = "Err" /\ resp.outcome = "internal_error"

\* a call returned from a decision that is cancelled and names an option
C16_Witness ==
    \E r \in PermIds :
        /\ permPc[r] = "ret_cancelled"
        /\ permGot[r].cancelled
        /\ permGot[r].option_id = "reject"

(***************************************************************************)
(* C17: a permission decision whose request id matches no outstanding      *)
(* permission request is rejected: it is never accepted into the channel,  *)
(* so every queued decision carries the id of a request that is waiting,   *)
(* and no call ever returns from a decision made for another id.           *)
(***************************************************************************)
C17_UnmatchedDecisionRejected ==
    /\ \A n \in 1..Len(permission_rx) :
          \E r \in PermIds :
              permPc[r] \in {"lock", "recv"} /\ permission_rx[n].request_id = r
    /\ \A r \in PermIds :
          permGot[r] # NoDecision => permGot[r].request_id = r

(***************************************************************************)
(* C18: for working directories K1 # K2, a send-message call for K1 (the   *)
(* command and every step of its task) leaves the sessions entry of K2 as  *)
(* it is, and the session it prompts on is one an adapter created for K1.  *)
(***************************************************************************)
C18_OtherKeysUntouched ==
    /\ [](\A i \in SendIds :
             sendPc[i] \in {"prompt", "done"} =>
                <<sendSession[i], sendKey[i]>> \in adapterSessions)
    /\ [][\A i \in SendIds :
             sendPc'[i] # sendPc[i] =>
                \A k \in Keys \ {sendKey'[i]} : sessions'[k] = sessions[k]]_vars

\* both working directories have a session, each prompted on by its own task
C18_Witness ==
    /\ sessions["k1"] # NoSession
    /\ sessions["k2"] # NoSession
    /\ \E i, j \in SendIds :
          /\ sendKey[i] = "k1" /\ sendPc[i] = "prompt"
          /\ sendKey[j] = "k2" /\ sendPc[j] = "prompt"

(***************************************************************************)
(* C19: of two send-message calls for one working directory, the second    *)
(* issued after the first has returned (and no stop() called since), the   *)
(* second prompts on the session id the first obtained, and one            *)
(* agent-session-created event is emitted for that working directory.      *)
(***************************************************************************)
C19_BackToBackReusesSession ==
    \A i, j \in SendIds :
        /\ i < j
        /\ sendKey[i] = sendKey[j]
        /\ sendConn[i] = connection /\ sendConn[j] = connection
        /\ sendPc[i] \in {"prompt", "done"}
        /\ sendPc[j] \in {"prompt", "done"}
        => /\ sendSession[j] = sendSession[i]
           /\ Cardinality({e \in events :
                              /\ e.type = "agent-session-created"
                              /\ <<e.id, sendKey[i]>> \in adapterSessions}) = 1

(***************************************************************************)
(* C20: the conversation history is part of a prompt only when the task    *)
(* created the session it prompts on and was given a non-empty history; a  *)
(* task that found a session cached sends the message alone, whatever      *)
(* history it was given; so at most one prompt per session carries history.*)
(***************************************************************************)
CreatedOwnSession(i) == sendSession[i] = <<sendConn[i], i>>
CarriesHistory(i) == sendPrompt[i] = <<"history", "message">>

C20_HistoryOnlyOnCreation ==
    /\ [](/\ \A i \in SendIds :
                sendPc[i] \in {"prompt", "done"} =>
                   /\ CarriesHistory(i) => CreatedOwnSession(i)
                   /\ ~CreatedOwnSession(i) => sendPrompt[i] = <<"message">>
          /\ \A i, j \in SendIds :
                /\ CarriesHistory(i) /\ CarriesHistory(j)
                /\ sendSession[i] = sendSession[j]
                => i = j)
    /\ [][\A i \in SendIds :
             /\ CarriesHistory(i)' /\ ~CarriesHistory(i) => TaskInsert(i, "some")
             /\ \A h \in Histories :
                   TaskLookup(i, h) /\ sendPc'[i] = "prompt" =>
                      sendPrompt'[i] = <<"message">>]_vars

\* one task created the session and sent the history with its prompt, another
\* found that session cached and sent the message alone
C20_Witness ==
    \E i, j \in SendIds :
        /\ i # j
        /\ sendPc[i] \in {"prompt", "done"} /\ CarriesHistory(i)
        /\ sendPc[j] \in {"prompt", "done"} /\ sendSession[j] = sendSession[i]
        /\ sendPrompt[j] = <<"message">>

(***************************************************************************)
(* C21: a session created on an adapter instance that stop() has killed is *)
(* never in the registry once a later adapter instance has been started,   *)
(* also when a send task was in flight during the stop.                    *)
(***************************************************************************)
C21_NoSessionOfStoppedAdapter ==
    \A k \in Keys :
        sessions[k] # NoSession =>
            ~ ( /\ adapter[sessions[k][1]] = "dead"
                /\ \E t \in StartIds : t > sessions[k][1] /\ adapter[t] # "none" )

(***************************************************************************)
(* C22: every agent-message-chunk, tool-call and tool-call-update event    *)
(* carries the request id of the send-message call whose prompt produced   *)
(* the update on that session, never the request id of another call.       *)
(***************************************************************************)
C22_EventCarriesOwnRequestId ==
    \A j \in 1..Len(observed) : observed[j].requestId = observed[j].origin

(***************************************************************************)
(* C23: for any one session, the events for its updates are emitted in the *)
(* order in which the adapter sent those updates.                          *)
(***************************************************************************)
C23_SessionEventsInSendOrder ==
    \A j, k \in 1..Len(observed) :
        (j < k /\ observed[j].sessionId = observed[k].sessionId)
            => observed[j].n < observed[k].n

C23_Witness ==
    \E j, k \in 1..Len(observed) :
        j < k /\ observed[j].sessionId = observed[k].sessionId

(***************************************************************************)
(* C24: while a send task for one working directory is suspended in        *)
(* new_session or in its prompt, a send task for another working directory *)
(* that is about to look up or to store its session can take that step:    *)
(* the registry lock is not held across a suspension point.                *)
(***************************************************************************)
C24_SuspendedTaskBlocksNoOtherKey ==
    \A i, j \in SendIds :
        ( /\ sendPc[i] \in {"new_session", "prompt"}
          /\ sendPc[j] \in {"lookup", "insert"}
          /\ sendKey[i] # sendKey[j] )
            => ENABLED (\E h \in Histories : TaskLookup(j, h) \/ TaskInsert(j, h))

\* the second task went from its lookup to its prompt, and its session is
\* stored, while the first task is still suspended in new_session
C24_Witness ==
    \E i, j \in SendIds :
        /\ sendPc[i] = "new_session"
        /\ sendPc[j] = "prompt"
        /\ sendKey[i] # sendKey[j]
        /\ i < j
        /\ sessions[sendKey[j]] = sendSession[j]
        /\ sessions[sendKey[i]] = NoSession

\* a registry call of kind op returns in this step
Returns(op) == ret'.n # ret.n /\ ret'.op = op

(***************************************************************************)
(* C25: release(id) returns Ok and the terminal is gone from the registry; *)
(* get_output(id) for an id that is not in the registry returns "Terminal  *)
(* not found" and changes nothing; an id enters the registry only by       *)
(* create_terminal.                                                        *)
(***************************************************************************)
C25_ReleaseRemovesAndMissingIsNotFound ==
    [][ /\ Returns("release") =>
              (ret'.res = "Ok" /\ ret'.id \notin DOMAIN terminals')
        /\ (Returns("get_output") /\ ret'.id \notin DOMAIN terminals) =>
              /\ ret'.res = "Terminal not found"
              /\ UNCHANGED <<terminals, child, killAwait, parked, waitPc, waitMissed,
                             watcher, pipe, termEvents>>
        /\ \A t \in TermIds :
              (t \notin DOMAIN terminals /\ t \in DOMAIN terminals') =>
                  (Returns("create_terminal") /\ ret'.id = t)
      ]_vars

\* get_output reported a terminal that was created and released as not found
C25_Witness ==
    /\ ret.op = "get_output"
    /\ ret.res = "Terminal not found"
    /\ child[ret.id] # "unspawned"
    /\ ret.id \notin DOMAIN terminals

(***************************************************************************)
(* C26 as stated: release(id) does not kill or signal the process of the   *)
(* terminal; the processes are as they were before the call.               *)
(***************************************************************************)
C26_ReleaseLeavesProcessRunning ==
    [][ Returns("release") => child' = child ]_vars

(***************************************************************************)
(* C26 amended: release(id) of a terminal whose process is still running   *)
(* removes the registry entry and kills that process, because the child is *)
(* spawned with kill-on-drop and release drops its handle; the processes   *)
(* of the other terminals are as they were.                                *)
(***************************************************************************)
C26_ReleaseKillsRunningProcess ==
    [][ \A t \in TermIds :
          (Returns("release") /\ ret'.id = t /\ t \in DOMAIN terminals) =>
              /\ terminals' = Remove(terminals, t)
              /\ child[t] = "running" => child'[t] = "killed"
              /\ child[t] # "running" => child'[t] = child[t]
              /\ \A u \in TermIds \ {t} : child'[u] = child[u]
      ]_vars

\* after one create_terminal and one release, with no kill(), the process is killed
C26_Witness ==
    /\ nCalls = 2
    /\ ret.op = "release"
    /\ ret.id \notin DOMAIN terminals
    /\ child[ret.id] = "killed"

(***************************************************************************)
(* C27: kill(id) for an id that is not in the registry is reported to the  *)
(* caller as an error.                                                     *)
(***************************************************************************)
C27_KillOfMissingIsError ==
    (ret.op = "kill" /\ ret.id \notin DOMAIN terminals) => ret.res # "Ok"

(***************************************************************************)
(* C28: a wait_for_exit(id) call that finds the terminal missing returns   *)
(* an error: it does not go on waiting.                                    *)
(***************************************************************************)
C28_WaitOnMissingReturns ==
    \A t \in waitMissed : waitPc[t] # "sleeping"

\* a step of kill(): the call up to its suspension or return, or its resumption
KillStep == Returns("kill") \/ killAwait' # killAwait

(***************************************************************************)
(* C29: kill(id) removes no terminal from the registry and changes no      *)
(* output buffer; a terminal leaves the registry only by release(id); and  *)
(* get_output(id) of a terminal in the registry, also after a kill(id),    *)
(* returns Ok with the buffer as it is.                                    *)
(***************************************************************************)
C29_KillKeepsTerminalAndBuffer ==
    [][ /\ KillStep =>
              /\ DOMAIN terminals' = DOMAIN terminals
              /\ \A t \in DOMAIN terminals : terminals'[t].output = terminals[t].output
        /\ \A t \in TermIds :
              (t \in DOMAIN terminals /\ t \notin DOMAIN terminals') =>
                  (Returns("release") /\ ret'.id = t)
        /\ (Returns("get_output") /\ ret'.id \in DOMAIN terminals) =>
              (ret'.res = "Ok" /\ ret'.output = terminals[ret'.id].output)
      ]_vars

\* get_output returned the captured line of a terminal whose kill() has returned
C29_Witness ==
    /\ ret.op = "get_output"
    /\ ret.res = "Ok"
    /\ ret.output # <<>>
    /\ ret.id \in DOMAIN terminals
    /\ child[ret.id] = "killed"
    /\ killAwait = None

(***************************************************************************)
(* C30: get_output(id) never blocks, whatever other routine is suspended.  *)
(***************************************************************************)
C30_GetOutputNeverBlocks ==
    parked # "get_output"

(***************************************************************************)
(* C31: wait_for_exit(id) returns only when an exit code is recorded for   *)
(* the terminal, and then it returns Ok with exactly that code; a call on  *)
(* a terminal whose code is already recorded returns in its first round;   *)
(* a waiting call holds no lock: a routine parks in lock() only while a    *)
(* kill() is suspended.                                                    *)
(***************************************************************************)
C31_WaitReturnsRecordedCode ==
    [][ /\ Returns("wait_for_exit") =>
              /\ ret'.res = "Ok"
              /\ ret'.id \in DOMAIN terminals
              /\ terminals[ret'.id].exit_status # NoneOpt
              /\ ret'.exit_status = terminals[ret'.id].exit_status
        /\ \A t \in TermIds :
              (waitPc[t] = "idle" /\ waitPc'[t] = "sleeping") =>
                  ~(t \in DOMAIN terminals /\ terminals[t].exit_status # NoneOpt)
        /\ (parked = "" /\ parked' # "") => killAwait # None
      ]_vars

\* a wait_for_exit returned the code 1 of a process that ended by itself
C31_Witness ==
    /\ ret.op = "wait_for_exit"
    /\ ret.res = "Ok"
    /\ ret.exit_status = Some(1)
    /\ child[ret.id] = "ended"

(***************************************************************************)
(* C32: whenever the exit watcher has recorded the exit code of a          *)
(* terminal's process, the capture routines have drained: every line the   *)
(* process wrote has been read and appended.                               *)
(***************************************************************************)
C32_RecordedExitMeansDrained ==
    \A t \in DOMAIN terminals :
        (terminals[t].exit_status # NoneOpt /\ watcher[t] = "done") =>
            \A st \in Streams : pipe[t][st] = 0

(***************************************************************************)
(* C33: for every terminal in the registry, once its process has           *)
(* terminated an exit code is eventually recorded; so the handler thread   *)
(* is never parked for good while such a terminal has no code recorded.    *)
(***************************************************************************)
C33_TerminatedGetsRecorded ==
    parked # "" =>
        \A t \in DOMAIN terminals :
            child[t] \in {"ended", "killed"} => terminals[t].exit_status # NoneOpt

(***************************************************************************)
(* C34: when spawning the process fails create_terminal returns an error,  *)
(* adds no entry, starts no routine and emits no event; a terminal-created *)
(* event is emitted only for a terminal that is stored in the registry.    *)
(***************************************************************************)
C34_FailedSpawnLeavesNothing ==
    [][ /\ (Returns("create_terminal") /\ ret'.res # "Ok") =>
              UNCHANGED <<terminals, child, watcher, pipe, termEvents, killAwait,
                          waitPc>>
        /\ \A e \in termEvents' \ termEvents :
              e.type = "terminal-created" =>
                  /\ e.terminalId \in DOMAIN terminals'
                  /\ Returns("create_terminal") /\ ret'.res = "Ok"
      ]_vars

\* a create_terminal failed after another one had succeeded
C34_Witness ==
    /\ ret.op = "create_terminal"
    /\ ret.res = "Failed to spawn terminal"
    /\ Cardinality(termEvents) = 1
    /\ Cardinality(DOMAIN terminals) = 1

(***************************************************************************)
(* C35: a kill(id) never leaves the handler thread stuck: while a kill()   *)
(* has not returned, no routine of the thread is parked.                   *)
(***************************************************************************)
C35_KillNeverSticksThread ==
    killAwait # None => parked = ""

(***************************************************************************)
(* C37: an exit watcher stops polling once its terminal has been released: *)
(* no watcher goes on after a round in which it found its terminal gone.   *)
(***************************************************************************)
C37_WatcherStopsAfterRelease ==
    \A t \in TermIds : watcher[t] # "orphan"

\* buf is a concatenation of whole lines, each followed by its line feed
RECURSIVE WholeLines(_)
WholeLines(buf) ==
    \/ buf = <<>>
    \/ \E st \in Streams :
          LET l == Encode(LineOf(st)) \o Encode(LineFeed) IN
          /\ Len(buf) >= Len(l)
          /\ SubSeq(buf, 1, Len(l)) = l
          /\ WholeLines(SliceFrom(buf, Len(l)))

(***************************************************************************)
(* C38: the buffer of a terminal that has not been truncated is always an  *)
(* interleaving of whole newline-terminated lines of the two streams.      *)
(***************************************************************************)
C38_BufferIsWholeLines ==
    \A t \in DOMAIN terminals :
        terminals[t].max_output_bytes = DefaultMaxOutputBytes =>
            WholeLines(terminals[t].output)

\* a buffer that holds a line of standard output and a line of standard error
C38_Witness ==
    \E t \in DOMAIN terminals :
        /\ terminals[t].max_output_bytes = DefaultMaxOutputBytes
        /\ Len(terminals[t].output) = 5

(***************************************************************************)
(* C39: a process ended by a signal has exit code -1 recorded; the exit    *)
(* code the handlers report is the recorded code as an unsigned 32-bit     *)
(* value: -1 becomes 4294967295 (both 16-bit halves 65535), a non-negative *)
(* code is unchanged.                                                      *)
(***************************************************************************)
C39_MinusOneReportedAsU32Max ==
    /\ \A t \in DOMAIN terminals :
          (child[t] = "killed" /\ terminals[t].exit_status # NoneOpt) =>
              terminals[t].exit_status = Some(-1)
    /\ ret.exit_status # NoneOpt =>
          LET c == ret.exit_status[1] IN
          /\ c = -1 => ret.wire = Some([hi |-> 65535, lo |-> 65535])
          /\ c >= 0 => ret.wire = Some([hi |-> 0, lo |-> c])
    /\ ret.exit_status = NoneOpt => ret.wire = NoneOpt

\* wait_for_exit reported the code of a killed process
C39_Witness ==
    /\ ret.op = "wait_for_exit"
    /\ ret.exit_status = Some(-1)
    /\ child[ret.id] = "killed"
    /\ ret.wire = Some([hi |-> 65535, lo |-> 65535])

\* the events of the given types among those task i emitted for its result
ResultEventsOf(i, types) ==
    {j \in 1..Len(promptEvents[i]) : promptEvents[i][j].type \in types}

(***************************************************************************)
(* C36: for every prompt that has returned, exactly one of                 *)
(* agent-message-complete and agent-message-error has been emitted, with   *)
(* the request id of the call; when the stop reason is MaxTokens an        *)
(* agent-max-tokens event with the same request id was emitted before      *)
(* agent-message-complete, for any other stop reason none; and nothing is  *)
(* emitted for a prompt that has not returned.                             *)
(***************************************************************************)
C36_OneResultEventPerPrompt ==
    \A i \in SendIds :
        LET evs == promptEvents[i]
            final == ResultEventsOf(i, {"agent-message-complete", "agent-message-error"})
            maxTokens == ResultEventsOf(i, {"agent-max-tokens"})
        IN
        /\ sendPc[i] # "done" => evs = <<>>
        /\ sendPc[i] = "done" =>
              /\ Cardinality(final) = 1
              /\ \A j \in 1..Len(evs) : evs[j].requestId = i
              /\ \A j \in final :
                    IF evs[j].type = "agent-message-complete"
                          /\ evs[j].stopReason = "MaxTokens"
                    THEN Cardinality(maxTokens) = 1 /\ \A k \in maxTokens : k < j
                    ELSE maxTokens = {}
              /\ \A j \in final :
                    \E e \in events : e.type = evs[j].type /\ e.by = i

\* one prompt returned with MaxTokens and another one failed
C36_Witness ==
    \E i, j \in SendIds :
        /\ sendPc[i] = "done" /\ Len(promptEvents[i]) = 2
        /\ sendPc[j] = "done" /\ promptEvents[j][1].type = "agent-message-error"

(***************************************************************************)
(* C40: stop() leaves the terminal registry as it is, and so does the      *)
(* shutdown of the start thread that follows it: no terminal is removed,   *)
(* no buffer or exit code changes and no process is killed by either; only *)
(* release removes a terminal; and a get_output that returns for a         *)
(* terminal of the registry, whatever thread created it, returns Ok with   *)
(* the terminal's output.                                                  *)
(***************************************************************************)
C40_StopLeavesRegistry ==
    [][ /\ (Stop \/ \E t \in StartIds : ThreadShutdown(t)) =>
              UNCHANGED <<terminals, child, pipe, termEvents, ret>>
        /\ DOMAIN terminals \subseteq DOMAIN terminals' \/ Returns("release")
        /\ \A t \in DOMAIN terminals :
              (Returns("get_output") /\ ret'.id = t) =>
                  /\ ret'.res = "Ok"
                  /\ ret'.output = terminals[t].output
      ]_vars

\* get_output returned the output of a terminal that was created before a
\* stop(), on a thread that has ended since, and whose process still runs
C40_Witness ==
    /\ ret.op = "get_output"
    /\ ret.res = "Ok"
    /\ ret.id \in DOMAIN terminals
    /\ termThread[ret.id] # None
    /\ startPc[termThread[ret.id]] = "exit"
    /\ watcher[ret.id] = "dropped"
    /\ child[ret.id] = "running"

====
